---- MODULE Spec2Model ----
(***************************************************************************)
(* Dehumidifier controller: the CO2 reading window and its threshold       *)
(* decision (co2_trigger.py), the device-draw decision, the device command *)
(* state machine and the control loop (main.py).                           *)
(*                                                                         *)
(* Readings are fixed-point numbers: a reading r stands for r / Scale      *)
(* gCO2eq/kWh, so that int() of a reading is a real truncation.  mean and  *)
(* stdev are the exact real values; every comparison against them is made  *)
(* by an equivalent integer inequality.  Time is counted in seconds and is *)
(* kept relative: until_next_update is next_update - monotonic(), cut off  *)
(* at 0; only sleep() lets time pass.                                      *)
(***************************************************************************)
EXTENDS Integers, Sequences, FiniteSets, TLC

\* ------------------------------------------------------------------ bounds
\* capacity of the reading window (72 in the program, scaled down)
DEQUE_SIZE == 2
\* resolution of a reading: Scale steps per gCO2eq/kWh
Scale == 2
\* number of cycles whose verdicts and commands are recorded (SpecTrace)
MaxCycles == 5

\* ------------------------------------------------------- program constants
UPDATE_INTERVAL == 1800
DEVICE_DRAW_THRESHOLD == 50
SHORT_SLEEP == 120
LONG_SLEEP == 1800

\* ------------------------------------------------------------------ inputs
\* carbon intensities the provider can report: the whole numbers
\* 1 .. DEQUE_SIZE+1 and the fractional 1 + 1/Scale
Readings == {Scale * i : i \in 1..(DEQUE_SIZE + 1)} \cup {Scale + 1}

\* outcomes of the CO2Signal request
ApiResponses ==
    {[kind |-> "ConnectionError"], [kind |-> "invalid_json"], [kind |-> "no_carbonIntensity"]}
    \cup {[kind |-> "ok", carbonIntensity |-> r] : r \in Readings}

\* power draws (Watts) a device can be reported with
Draws == {DEVICE_DRAW_THRESHOLD - 1, DEVICE_DRAW_THRESHOLD, DEVICE_DRAW_THRESHOLD + 1}

\* the device named by TRIGGER_DEVICE and one other device
SENSE_DEVICE == "Projector"
DeviceNames == {SENSE_DEVICE, "Fridge"}
Devices == [name : DeviceNames, w : Draws]

\* outcomes of the Sense request: a timeout, or a report of 0..2 devices
\* that lists no device twice
SenseResults ==
    {[kind |-> "timeout", devices |-> <<>>]}
    \cup {[kind |-> "ok", devices |-> <<>>]}
    \cup {[kind |-> "ok", devices |-> <<d>>] : d \in Devices}
    \cup {[kind |-> "ok", devices |-> <<p[1], p[2]>>] :
              p \in {q \in Devices \X Devices : q[1].name # q[2].name}}

\* outcomes of the IFTTT webhook request
WebhookResults == {"ok", "http_error", "ConnectionError"}

\* snapshots that can be on disk at start
SeqsUpTo(S, n) == UNION {[1..k -> S] : k \in 0..n}
NoFile == [exists |-> FALSE, wellformed |-> TRUE, content |-> <<>>]
Malformed == [exists |-> TRUE, wellformed |-> FALSE, content |-> <<>>]
\* the JSON text of a number: its whole part and the digits after the point
JsonNumber(r) == [whole |-> r \div Scale, frac |-> r % Scale]
\* a number parsed as a whole number only, its fraction lost
ParseNumberWhole(t) == t.whole * Scale
\* the number a JSON text denotes
ParseNumber(t) == t.whole * Scale + t.frac
\* the file holding the JSON list of the readings s
Snapshot(s) ==
    [exists |-> TRUE, wellformed |-> TRUE, content |-> [i \in 1..Len(s) |-> JsonNumber(s[i])]]
InitialFiles ==
    {NoFile, Malformed} \cup {Snapshot(s) : s \in SeqsUpTo(Readings, DEQUE_SIZE + 1)}
\* the snapshots an earlier run of the program can have left: a window
WrittenFiles == {NoFile} \cup {Snapshot(s) : s \in SeqsUpTo(Readings, DEQUE_SIZE)}

VARIABLES
    pc,                 \* position of the process: main, the steps of run(), crashed
    error,              \* the exception that ended the process, "" while it runs
    data,               \* CO2Trigger.data, oldest reading first
    file,               \* co2_readings.json
    until_next_update,  \* CO2Trigger.next_update - monotonic(), at least 0
    device_state,       \* Controller.device_state
    decisions,          \* run(): the list decisions, filled as the cycle goes
    sense,              \* decide_device(): what the Sense request answered, until it is used
    call,               \* run(): this cycle's update_device call
    sleep_duration,     \* run(): sleep_duration, 0 until it is chosen
    hist,               \* history: the loaded window and the readings appended since (last DEQUE_SIZE+1)
    tracing,            \* history: whether verdicts and commands are recorded, instead of hist
    verdicts,           \* history: the verdicts passed to update_device since start
    commands,           \* history: the webhook events requested since start
    request,            \* history: what update_data did in this cycle, until decide() runs
    fetched,            \* history: whether a fetch has succeeded in this process
    since_fetch,        \* history: seconds since the last successful fetch, up to UPDATE_INTERVAL
    prev_carbon         \* history: the carbon decision of the previous cycle

vars == <<pc, error, data, file, until_next_update, device_state, decisions, sense, call,
          sleep_duration, hist, tracing, verdicts, commands, request, fetched, since_fetch,
          prev_carbon>>

\* ----------------------------------------------------------------- helpers
Max(a, b) == IF a >= b THEN a ELSE b

Min(a, b) == IF a <= b THEN a ELSE b

LastN(n, s) == IF Len(s) <= n THEN s ELSE SubSeq(s, Len(s) - n + 1, Len(s))

RECURSIVE Sum(_)
Sum(s) == IF s = <<>> THEN 0 ELSE Head(s) + Sum(Tail(s))

RECURSIVE SumSq(_)
SumSq(s) == IF s = <<>> THEN 0 ELSE Head(s) * Head(s) + SumSq(Tail(s))

\* collections.deque(iterable, maxlen): the last maxlen items
deque(iterable, maxlen) == LastN(maxlen, iterable)

\* a deque.append that drops the newest item of a full deque instead of the oldest
deque_append_drops_newest(d, x, maxlen) ==
    IF Len(d) >= maxlen THEN Append(SubSeq(d, 1, Len(d) - 1), x) ELSE Append(d, x)

\* deque.append on a full deque drops the oldest item
deque_append(d, x, maxlen) ==
    IF Len(d) >= maxlen THEN Append(Tail(d), x) ELSE Append(d, x)

\* ------------------------------------------------------------- statistics
\* n(n-1) times the sample variance times n: n * sum(x^2) - sum(x)^2
SumSqDev(w) == Len(w) * SumSq(w) - Sum(w) * Sum(w)

\* x <= mean(w) + stdev(w), for Len(w) >= 2, x and w in reading units
LeqMeanPlusStdev(x, w) ==
    LET n == Len(w)
        d == x * n - Sum(w)
    IN  d <= 0 \/ d * d * (n - 1) <= SumSqDev(w) * n

\* x >= mean(w) + stdev(w), for Len(w) >= 2
GeqMeanPlusStdev(x, w) ==
    LET n == Len(w)
        d == x * n - Sum(w)
    IN  d >= 0 /\ d * d * (n - 1) >= SumSqDev(w) * n

\* int(x) of a reading: truncation to whole gCO2eq/kWh
int(x) == x \div Scale

\* int(mean(w) + stdev(w)): the largest whole k with k <= mean + stdev
IntMeanPlusStdev(w) ==
    CHOOSE k \in 0..(2 * Len(w) * (DEQUE_SIZE + 2)) :
        LeqMeanPlusStdev(k * Scale, w) /\ ~LeqMeanPlusStdev((k + 1) * Scale, w)

\* -------------------------------------------------------------- decisions
\* decision.Decision; criteria is display text only
Decision(name, units, threshold, measurement, decision) ==
    [type |-> "Decision", name |-> name, units |-> units, threshold |-> threshold,
     measurement |-> measurement, decision |-> decision]

\* what CO2Trigger.decide returns while the window is too short: the bool False
StillInitializing == [type |-> "bool", value |-> FALSE]

\* CO2Trigger.decide: threshold truncated, newest reading truncated, then compared
decide(w) ==
    IF Len(w) < 2
    THEN StillInitializing
    ELSE LET last_co2 == int(w[Len(w)])
             threshold == IntMeanPlusStdev(w)
             is_high == last_co2 >= threshold
         IN  Decision("Carbon Cost", "gCO2eq/kWh", threshold, last_co2, ~is_high)

\* index of the first reported device named SENSE_DEVICE, 0 when there is none
RECURSIVE FirstMatchFrom(_, _)
FirstMatchFrom(devices, i) ==
    IF i > Len(devices) THEN 0
    ELSE IF devices[i].name = SENSE_DEVICE THEN i
    ELSE FirstMatchFrom(devices, i + 1)

\* the reading of the device as on: draw above the threshold
device_is_on(device_draw) == device_draw > DEVICE_DRAW_THRESHOLD

\* Controller.decide_device: the Decision it returns, or the exception it raises
decide_device(result) ==
    LET default == Decision(SENSE_DEVICE, "W", 50, 0, TRUE)
        i == FirstMatchFrom(result.devices, 1)
    IN  IF result.kind = "timeout"
        THEN [raised |-> "", value |-> default]
        ELSE IF i > 0
        THEN [raised |-> "",
              value |-> [default EXCEPT !.measurement = result.devices[i].w,
                                        !.decision = ~device_is_on(result.devices[i].w)]]
        ELSE IF result.devices = <<>>
        THEN [raised |-> "UnboundLocalError", value |-> default]  \* device_name was never bound
        ELSE [raised |-> "", value |-> default]

\* a combined verdict that passes when either decision passes
dehumidifier_should_be_on_either(ds) == ds[1].decision \/ ds[2].decision

\* a combined verdict that looks at the device decision only
dehumidifier_should_be_on_device_only(ds) == ds[2].decision

\* run(): decisions[0].decision and decisions[1].decision
dehumidifier_should_be_on(ds) == ds[1].decision /\ ds[2].decision

\* a delay chosen from the combined verdict instead of the carbon decision
choose_sleep_duration_combined(ds) ==
    IF ~(ds[1].decision /\ ds[2].decision) THEN LONG_SLEEP ELSE SHORT_SLEEP

\* a back-off shorter than the update interval
choose_sleep_duration_short_backoff(ds) ==
    IF ~ds[1].decision THEN UPDATE_INTERVAL - SHORT_SLEEP ELSE SHORT_SLEEP

\* run(): the delay chosen from the carbon decision
choose_sleep_duration(ds) ==
    LET co2_is_high == ~ds[1].decision
    IN  IF co2_is_high THEN LONG_SLEEP ELSE SHORT_SLEEP

\* ------------------------------------------------- device command machine
event(on) == IF on THEN "dehumidifier_on" ELSE "dehumidifier_off"

\* a next state with ON and OFF swapped
next_state_swapped(on) == IF on THEN "off" ELSE "on"

\* a next state that forgets the state when the verdict is off
next_state_forgets(on) == IF on THEN "on" ELSE "unknown"

next_state(on) == IF on THEN "on" ELSE "off"

\* a fire_update without the branch for UNKNOWN
fire_update_known_only(state, on) ==
    \/ state = "on" /\ ~on
    \/ state = "off" /\ on

fire_update(state, on) ==
    \/ state = "on" /\ ~on
    \/ state = "off" /\ on
    \/ state = "unknown"

NoDecision == [type |-> "none"]

\* how much longer than asked sleep() can take, and the time the rest of a cycle takes
Overruns == {0, SHORT_SLEEP \div 2}

NoSense == [kind |-> "none", devices |-> <<>>]

NoCall == [called |-> FALSE, on |-> FALSE, fired |-> FALSE, event |-> "", webhook |-> ""]

\* --------------------------------------------------------------- actions
Raise(e) == pc' = "crashed" /\ error' = e

\* json.load(in_file): the list of the numbers in the file
json_load(content) == [i \in 1..Len(content) |-> ParseNumber(content[i])]

\* a dump of the window as it was before the newest reading came
json_dump_stale(l) == Snapshot(SubSeq(l, 1, Len(l) - 1))

\* open(data_location, "w") and json.dump(list(self.data), out_file)
json_dump(l) == Snapshot(l)

\* CO2Trigger.load_data
load_data(f) == deque(json_load(f.content), DEQUE_SIZE)

\* an update_data that never returns early
too_early_never(until) == FALSE

\* CO2Trigger.update_data: monotonic() < self.next_update
too_early(until) == until > 0

\* __main__: build the trigger, load the snapshot if there is one, start run()
Main ==
    /\ pc = "main"
    /\ IF file.exists /\ ~file.wellformed
       THEN /\ Raise("JSONDecodeError")
            /\ UNCHANGED <<data, hist>>
       ELSE /\ data' = IF file.exists THEN load_data(file) ELSE data
            /\ hist' = IF tracing THEN hist ELSE data'
            /\ pc' = "update_data"
            /\ UNCHANGED error
    /\ UNCHANGED <<file, until_next_update, device_state, decisions, sense, call,
                   sleep_duration, tracing, verdicts, commands, request, fetched, since_fetch,
                   prev_carbon>>

\* CO2Trigger.update_data before its update time: returns at once
UpdateDataSkip ==
    /\ pc = "update_data"
    /\ too_early(until_next_update)
    /\ pc' = "decide"
    /\ request' = "skipped"
    /\ UNCHANGED <<error, data, file, until_next_update, device_state, decisions, sense, call,
                   sleep_duration, hist, tracing, verdicts, commands, fetched, since_fetch,
                   prev_carbon>>

\* CO2Trigger.update_data at or after its update time, the request answering resp
UpdateDataFetch(resp) ==
    /\ pc = "update_data"
    /\ ~too_early(until_next_update)
    /\ request' = resp.kind
    /\ CASE resp.kind = "ConnectionError" ->
              \* requests.get raises
              /\ Raise("ConnectionError")
              /\ UNCHANGED <<data, file, until_next_update, hist, fetched, since_fetch>>
         [] resp.kind = "invalid_json" ->
              \* the except clause names JSONDecodeError, which is not imported
              /\ Raise("NameError")
              /\ UNCHANGED <<data, file, until_next_update, hist, fetched, since_fetch>>
         [] resp.kind = "no_carbonIntensity" ->
              /\ pc' = "decide"
              /\ UNCHANGED <<error, data, file, until_next_update, hist, fetched, since_fetch>>
         [] resp.kind = "ok" ->
              /\ until_next_update' = UPDATE_INTERVAL
              /\ fetched' = TRUE
              /\ since_fetch' = 0
              /\ data' = deque_append(data, resp.carbonIntensity, DEQUE_SIZE)
              /\ file' = json_dump(data')
              /\ hist' = IF tracing THEN hist
                         ELSE LastN(DEQUE_SIZE + 1, Append(hist, resp.carbonIntensity))
              /\ pc' = "decide"
              /\ UNCHANGED error
    /\ UNCHANGED <<device_state, decisions, sense, call, sleep_duration, tracing, verdicts,
                   commands, prev_carbon>>

\* run(): decisions = [self.co2_trigger.decide(), ...
Decide ==
    /\ pc = "decide"
    /\ decisions' = <<decide(data)>>
    /\ pc' = "decide_device"
    /\ request' = "none"
    /\ UNCHANGED <<error, data, file, until_next_update, device_state, sense, call,
                   sleep_duration, hist, tracing, verdicts, commands, fetched, since_fetch,
                   prev_carbon>>

\* run(): ... self.decide_device()], the Sense request answering result
DecideDevice(result) ==
    /\ pc = "decide_device"
    /\ sense' = result
    /\ LET r == decide_device(result)
       IN  IF r.raised # ""
           THEN Raise(r.raised) /\ UNCHANGED decisions
           ELSE /\ decisions' = Append(decisions, r.value)
                /\ pc' = "update_device"
                /\ UNCHANGED error
    /\ UNCHANGED <<data, file, until_next_update, device_state, call,
                   sleep_duration, hist, tracing, verdicts, commands, request, fetched,
                   since_fetch, prev_carbon>>

\* run(): reading decisions[0].decision of the bool False raises
CombineRaises ==
    /\ pc = "update_device"
    /\ decisions[1].type = "bool"
    /\ Raise("AttributeError")
    /\ UNCHANGED <<data, file, until_next_update, device_state, decisions, sense, call,
                   sleep_duration, hist, tracing, verdicts, commands, request, fetched,
                   since_fetch, prev_carbon>>

\* run(): the combined verdict, and Controller.update_device with it; the
\* webhook request, when one is made, answering webhook
UpdateDevice(webhook) ==
    /\ pc = "update_device"
    /\ decisions[1].type = "Decision"
    /\ sense' = NoSense
    /\ LET on == dehumidifier_should_be_on(decisions)
       IN  /\ verdicts' = IF tracing THEN Append(verdicts, on) ELSE verdicts
           /\ IF fire_update(device_state, on)
              THEN /\ call' = [called |-> TRUE, on |-> on, fired |-> TRUE,
                               event |-> event(on), webhook |-> webhook]
                   /\ commands' = IF tracing THEN Append(commands, event(on)) ELSE commands
                   /\ IF webhook = "ConnectionError"
                      THEN Raise("ConnectionError") /\ UNCHANGED device_state
                      ELSE /\ device_state' = next_state(on)
                           /\ pc' = "select_delay"
                           /\ UNCHANGED error
              ELSE /\ webhook = "ok"   \* no request is made: one step, not three
                   /\ call' = [called |-> TRUE, on |-> on, fired |-> FALSE,
                               event |-> "", webhook |-> ""]
                   /\ pc' = "select_delay"
                   /\ UNCHANGED <<error, device_state, commands>>
    /\ UNCHANGED <<data, file, until_next_update, decisions, sleep_duration, hist, tracing,
                   request, fetched, since_fetch, prev_carbon>>

\* run(): sleep_duration = 120, or 1800 when the carbon decision is high
SelectDelay ==
    /\ pc = "select_delay"
    /\ sleep_duration' = choose_sleep_duration(decisions)
    /\ pc' = "sleep"
    /\ UNCHANGED <<error, data, file, until_next_update, device_state, decisions, sense, call,
                   hist, tracing, verdicts, commands, request, fetched, since_fetch,
                   prev_carbon>>

\* run(): sleep(sleep_duration), which takes at least that long, then the
\* next iteration with fresh locals
Sleep(overrun) ==
    /\ pc = "sleep"
    /\ tracing => Len(verdicts) < MaxCycles
    /\ until_next_update' = Max(0, until_next_update - (sleep_duration + overrun))
    /\ since_fetch' = Min(UPDATE_INTERVAL, since_fetch + sleep_duration + overrun)
    /\ prev_carbon' = decisions[1]
    /\ decisions' = <<>>
    /\ call' = NoCall
    /\ sleep_duration' = 0
    /\ pc' = "update_data"
    /\ UNCHANGED <<error, data, file, device_state, sense, hist, tracing, verdicts, commands,
                   request, fetched>>

Start(t, files) ==
    /\ pc = "main"
    /\ error = ""
    /\ data = <<>>
    /\ file \in files
    /\ until_next_update = 0
    /\ device_state = "unknown"
    /\ decisions = <<>>
    /\ sense = NoSense
    /\ call = NoCall
    /\ sleep_duration = 0
    /\ hist = <<>>
    /\ tracing = t
    /\ verdicts = <<>>
    /\ commands = <<>>
    /\ request = "none"
    /\ fetched = FALSE
    /\ since_fetch = 0
    /\ prev_carbon = NoDecision

Init == Start(FALSE, InitialFiles)

\* a start on what an earlier run left on disk, with the history recorded
InitTrace == Start(TRUE, WrittenFiles)

Next ==
    \/ Main
    \/ UpdateDataSkip
    \/ \E resp \in ApiResponses : UpdateDataFetch(resp)
    \/ Decide
    \/ \E result \in SenseResults : DecideDevice(result)
    \/ CombineRaises
    \/ \E webhook \in WebhookResults : UpdateDevice(webhook)
    \/ SelectDelay
    \/ \E overrun \in Overruns : Sleep(overrun)

Spec == Init /\ [][Next]_vars

\* the first MaxCycles cycles of a process, with their verdicts and commands recorded
SpecTrace == InitTrace /\ [][Next]_vars

TypeOK ==
    /\ pc \in {"main", "update_data", "decide", "decide_device", "update_device",
               "select_delay", "sleep", "crashed"}
    /\ device_state \in {"on", "off", "unknown"}
    /\ until_next_update \in 0..UPDATE_INTERVAL
    /\ sleep_duration \in {0, SHORT_SLEEP, LONG_SLEEP}
    /\ Len(decisions) <= 2

\* ================================================================ claims

\* C1: in every call update_device(on) a command is requested iff the stored
\* device_state is UNKNOWN or differs from the state the verdict implies, and
\* the command requested is the verdict's; with the stored state equal to the
\* implied one no command is requested.
C1_CommandIffStateDiffers ==
    [][(pc = "update_device" /\ call'.called) =>
          LET implied == IF call'.on THEN "on" ELSE "off"
          IN  /\ call'.fired <=> (device_state = "unknown" \/ device_state # implied)
              /\ call'.fired =>
                    call'.event = (IF call'.on THEN "dehumidifier_on" ELSE "dehumidifier_off")
              /\ device_state = implied => ~call'.fired]_vars

\* a call with verdict off while the stored state is OFF, which requested nothing
C1_Witness ==
    pc = "select_delay" /\ call.called /\ ~call.on /\ ~call.fired /\ device_state = "off"

\* consecutive duplicates of a sequence collapsed
RECURSIVE Collapse(_)
Collapse(s) ==
    IF Len(s) <= 1 THEN s
    ELSE IF s[Len(s)] = s[Len(s) - 1] THEN Collapse(SubSeq(s, 1, Len(s) - 1))
    ELSE Append(Collapse(SubSeq(s, 1, Len(s) - 1)), s[Len(s)])

CommandFor(verdict) == IF verdict THEN "dehumidifier_on" ELSE "dehumidifier_off"

\* C2: since process start the sequence of commands requested is the sequence
\* of combined verdicts with consecutive duplicates collapsed: one command in
\* the first cycle whatever its verdict, none in a cycle whose verdict is the
\* previous cycle's; verdicts [true, true, false, false, true] give [on, off, on].
C2_CommandsAreCollapsedVerdicts ==
    /\ Len(commands) = Len(Collapse(verdicts))
    /\ \A i \in 1..Len(commands) : commands[i] = CommandFor(Collapse(verdicts)[i])
    /\ Len(verdicts) >= 1 => Len(commands) >= 1 /\ commands[1] = CommandFor(verdicts[1])
    /\ verdicts = <<TRUE, TRUE, FALSE, FALSE, TRUE>> =>
          commands = <<"dehumidifier_on", "dehumidifier_off", "dehumidifier_on">>

\* five cycles with the verdicts of the example, every webhook request answered
C2_Witness ==
    /\ verdicts = <<TRUE, TRUE, FALSE, FALSE, TRUE>>
    /\ commands = <<"dehumidifier_on", "dehumidifier_off", "dehumidifier_on">>
    /\ pc = "select_delay"

\* C3: when the webhook request of a command fails (it raises or it answers
\* with a failure), device_state is left as it was and the loop goes on with
\* the cycle.
C3_FailedEmissionKeepsStateAndLoop ==
    [][(pc = "update_device" /\ call'.fired /\ call'.webhook # "ok") =>
          (device_state' = device_state /\ pc' = "select_delay")]_vars

\* C4: in a cycle whose window holds fewer than 2 readings decide yields the
\* still-initializing signal and the loop takes the carbon verdict as not
\* pass: update_device is called with off and the cycle goes on.
C4_InitializingIsNotPass ==
    [][(pc = "update_device" /\ Len(data) < 2) =>
          /\ decisions[1] = StillInitializing
          /\ call'.called
          /\ ~call'.on
          /\ error' # "AttributeError"]_vars

\* C5: the verdict passed to update_device is the conjunction of the carbon
\* decision and the device decision: false when either is false, true when
\* both pass; no turn-on command is requested in a cycle where either fails.
C5_VerdictIsConjunction ==
    call.called =>
        /\ ~decisions[1].decision => ~call.on
        /\ ~decisions[2].decision => ~call.on
        /\ (decisions[1].decision /\ decisions[2].decision) => call.on
        /\ call.event = "dehumidifier_on" => (decisions[1].decision /\ decisions[2].decision)

\* the carbon decision passes, the device decision fails, the verdict is off
C5_Witness ==
    /\ call.called
    /\ decisions[1].decision
    /\ ~decisions[2].decision
    /\ ~call.on
    /\ call.event = "dehumidifier_off"

\* C6: with at least 2 readings in the window the carbon decision is pass iff
\* the newest reading, untruncated, is strictly below mean + sample standard
\* deviation of the window, untruncated; a reading equal to it is fail.
C6_PassIffBelowUntruncatedThreshold ==
    (Len(decisions) >= 1 /\ Len(data) >= 2) =>
        (decisions[1].decision <=> ~GeqMeanPlusStdev(data[Len(data)], data))

\* C7: a report listing the named device with draw w gives decision false and
\* measurement w when w >= 50, 50 included, and decision true when w < 50.
C7_DrawAtOrAboveThresholdFails ==
    (pc = "update_device" /\ sense.kind = "ok" /\ FirstMatchFrom(sense.devices, 1) > 0) =>
        LET w == sense.devices[FirstMatchFrom(sense.devices, 1)].w
        IN  /\ w >= DEVICE_DRAW_THRESHOLD =>
                  (~decisions[2].decision /\ decisions[2].measurement = w)
            /\ w < DEVICE_DRAW_THRESHOLD => decisions[2].decision

\* C8: when the report does not list the named device (it lists others or
\* nothing at all) or the request times out, decide_device returns decision
\* true with measurement 0 and the cycle goes on.
C8_AbsentOrTimeoutPasses ==
    (sense # NoSense /\ (sense.kind = "timeout" \/ FirstMatchFrom(sense.devices, 1) = 0)) =>
        /\ pc = "update_device"
        /\ Len(decisions) = 2
        /\ decisions[2].decision
        /\ decisions[2].measurement = 0

\* the readings 1 .. DEQUE_SIZE+1 in order, and 2 .. DEQUE_SIZE+1
OneToCapacityPlusOne == [i \in 1..(DEQUE_SIZE + 1) |-> Scale * i]
TwoToCapacityPlusOne == [i \in 1..DEQUE_SIZE |-> Scale * (i + 1)]

\* C9: after any loads and appends the window holds at most DEQUE_SIZE
\* readings, the most recent ones in the order they came; appending to a full
\* window evicts the oldest: 1 .. C+1 appended leave 2 .. C+1.
C9_WindowBoundedFifo ==
    /\ Len(data) <= DEQUE_SIZE
    /\ data = LastN(DEQUE_SIZE, hist)
    /\ hist = OneToCapacityPlusOne => data = TwoToCapacityPlusOne

\* the last DEQUE_SIZE+1 readings were 1 .. C+1, the last one appended to a full window
C9_Witness ==
    /\ pc = "decide"
    /\ hist = OneToCapacityPlusOne
    /\ data = TwoToCapacityPlusOne
    /\ file = Snapshot(TwoToCapacityPlusOne)

\* C10: the delay before the next cycle is the long one if the cycle's carbon
\* decision is fail and the short one if it is pass, whatever the device
\* decision is.
C10_DelayFollowsCarbonVerdict ==
    pc = "sleep" =>
        /\ ~decisions[1].decision => sleep_duration = LONG_SLEEP
        /\ decisions[1].decision => sleep_duration = SHORT_SLEEP

\* carbon pass and device fail: the verdict is off and the delay is the short one
C10_Witness ==
    /\ pc = "sleep"
    /\ decisions[1].decision
    /\ ~decisions[2].decision
    /\ sleep_duration = SHORT_SLEEP

\* C11: when the carbon fetch of a cycle fails (the request raises, the
\* answer is not JSON, or it holds no carbonIntensity) update_data leaves the
\* window, the snapshot and the update time as they were and the cycle goes
\* on to decide(); the update time being unchanged, the next cycle fetches again.
C11_FailedFetchChangesNothing ==
    [][(pc = "update_data"
        /\ request' \in {"ConnectionError", "invalid_json", "no_carbonIntensity"}) =>
          /\ data' = data
          /\ file' = file
          /\ until_next_update' = until_next_update
          /\ pc' = "decide"]_vars

\* C12: with a malformed snapshot on disk at start the process goes on: the
\* window starts empty and the control loop begins.
C12_MalformedSnapshotStartsEmpty ==
    [][(pc = "main" /\ file.exists /\ ~file.wellformed) =>
          (pc' = "update_data" /\ data' = <<>>)]_vars

\* the positions of the control loop
LoopSteps == {"update_data", "decide", "decide_device", "update_device", "select_delay", "sleep"}

\* C13: the control loop never ends: whatever the providers and the command
\* channel answer and whatever the window holds, a step of the loop is
\* followed by the loop.
C13_LoopNeverEnds ==
    [][(pc \in LoopSteps) => (pc' \in LoopSteps)]_vars

\* C14: update_data attempts a fetch iff no fetch has succeeded yet in this
\* process or at least UPDATE_INTERVAL has passed since the last one that
\* did; a cycle that skips the fetch leaves the window and the snapshot
\* alone and gets the carbon decision of the previous cycle; a reading is
\* appended at most once per UPDATE_INTERVAL.
C14_FetchOncePerInterval ==
    [][/\ (pc = "update_data" /\ pc' # "update_data") =>
             /\ request' # "skipped" <=> (~fetched \/ since_fetch >= UPDATE_INTERVAL)
             /\ request' = "skipped" => (data' = data /\ file' = file)
             /\ request' = "ok" =>
                   /\ ~fetched \/ since_fetch >= UPDATE_INTERVAL
                   /\ Len(data') <= Len(data) + 1
             /\ request' # "ok" => data' = data
       /\ (pc = "decide" /\ request = "skipped") => decisions'[1] = prev_carbon]_vars

\* a cycle that skipped the fetch some time after a successful one
C14_Witness ==
    /\ pc = "decide_device"
    /\ fetched
    /\ since_fetch > 0
    /\ since_fetch < UPDATE_INTERVAL
    /\ decisions[1] = prev_carbon

\* the numbers a list of JSON texts denotes
NumbersIn(content) ==
    [i \in 1..Len(content) |-> content[i].whole * Scale + content[i].frac]

\* C15: once a reading has been appended the snapshot on disk holds the
\* readings of the window, in the window's order: at the end of the
\* update_data call that appended and in every state after it.
C15_SnapshotEqualsWindow ==
    fetched =>
        /\ file.exists
        /\ file.wellformed
        /\ NumbersIn(file.content) = data

\* a later cycle begins with a full window, a fractional reading in it, on disk
C15_Witness ==
    /\ pc = "update_data"
    /\ fetched
    /\ Len(data) = DEQUE_SIZE
    /\ data[Len(data)] = Scale + 1
    /\ NumbersIn(file.content) = data

\* C16: load_data replaces the window by the numbers of the snapshot in
\* their order, the most recent DEQUE_SIZE of them when there are more; a
\* snapshot saved from a window loads as that window.
C16_LoadRestoresWindow ==
    [][(pc = "main" /\ pc' = "update_data" /\ file.exists) =>
          /\ data' = LastN(DEQUE_SIZE, NumbersIn(file.content))
          /\ \A w \in SeqsUpTo(Readings, DEQUE_SIZE) : file = Snapshot(w) => data' = w]_vars

\* a snapshot longer than the window was loaded: its oldest number is not in the window
C16_Witness ==
    /\ pc = "update_data"
    /\ ~fetched
    /\ prev_carbon = NoDecision
    /\ Len(file.content) = DEQUE_SIZE + 1
    /\ data = Tail(NumbersIn(file.content))
    /\ data[1] = Scale + 1

\* C17: device_state is UNKNOWN at process start, and no step takes it from
\* ON or OFF back to UNKNOWN.
C17_UnknownOnlyAtStart ==
    [][/\ pc = "main" => device_state = "unknown"
       /\ device_state # "unknown" => device_state' # "unknown"]_vars

\* a later cycle begins with the state known
C17_Witness ==
    pc = "update_data" /\ device_state = "on" /\ prev_carbon # NoDecision

\* C18: device_state changes only in a step in which a command is emitted
\* with success, and then becomes the state that command implies.
C18_StateChangesOnlyOnSuccess ==
    [][device_state' # device_state =>
          /\ call'.fired
          /\ call'.webhook = "ok"
          /\ device_state' = (IF call'.on THEN "on" ELSE "off")]_vars

\* C19: whenever the loop enters the long sleep the stored device_state is
\* OFF: never ON, never UNKNOWN.
C19_BackOffOnlyWhenOff ==
    (pc = "sleep" /\ sleep_duration = LONG_SLEEP) => device_state = "off"

\* carbon fail with the device decision pass: the off command was sent, the long sleep begins
C19_Witness ==
    /\ pc = "sleep"
    /\ sleep_duration = LONG_SLEEP
    /\ decisions[2].decision
    /\ call.fired
    /\ device_state = "off"

\* C20: the long sleep ends at or after the update time, and the cycle that
\* follows a cycle whose carbon decision was fail attempts a fetch: the
\* decision fail is not taken again from the same window without one.
C20_FetchAfterBackOff ==
    [][/\ (pc = "sleep" /\ sleep_duration = LONG_SLEEP) => until_next_update' = 0
       /\ (pc = "update_data" /\ pc' # "update_data"
           /\ prev_carbon.type = "Decision" /\ ~prev_carbon.decision) =>
             request' # "skipped"]_vars

\* the cycle after a back-off fetched a new reading
C20_Witness ==
    /\ pc = "decide"
    /\ request = "ok"
    /\ prev_carbon.type = "Decision"
    /\ ~prev_carbon.decision

====
